---- MODULE Spec2Model ----
(***************************************************************************)
(* Event-lifecycle / price-capture engine of the BTC/USD streaming         *)
(* platform (class StreamingPlatform).  Every handler of the single-       *)
(* threaded event loop is one atomic action; the catalog fetch is the only *)
(* suspending operation and is modelled as a message in flight.            *)
(*                                                                         *)
(* Time is counted in clock steps.  SecondMs steps make one second (1000   *)
(* ms in the program) and SlotMs steps one event slot (15 minutes in the   *)
(* program), so that "less than one second before the end of the slot"     *)
(* is a distinguishable instant.                                           *)
(***************************************************************************)
EXTENDS Integers, Sequences, FiniteSets, Bags, TLC

VARIABLES
  now,               \* wall clock (Date.now()), in clock steps
  events,            \* EventManager's working list: sequence of slugs (slot numbers)
  autoRefresh,       \* EventManager.startAutoRefresh has been called
  pending,           \* bag of catalog fetches in flight
  phase,             \* "constructed" | "loading" | "running"  (initialize())
  socketOpen,        \* the feed delivers ticks
  currentPrice,      \* number | null
  priceHistory,      \* sequence of [timestamp, value]
  currentStatus,     \* ConnectionStatus
  countdownInterval, \* timer id | null
  liveTimers,        \* set of interval timers the window still holds
  eventPriceToBeat,  \* Map slug -> price
  eventLastPrice,    \* Map slug -> price
  countdownText,     \* content of #event-countdown
  panel,             \* content of #active-event-display
  tableRows,         \* content of #events-table-body: lastPrice cell per row
  eventsError,       \* content of #events-error
  lastOp,            \* observation: the handler that ran last
  obs,               \* observation: facts about the last handler run
  proxy              \* one invocation of the API proxy function (serverless)

\* the state of the page
platformVars == <<now, events, autoRefresh, pending, phase, socketOpen, currentPrice,
                  priceHistory, currentStatus, countdownInterval, liveTimers,
                  eventPriceToBeat, eventLastPrice, countdownText, panel, tableRows,
                  eventsError, lastOp, obs>>

vars == <<platformVars, proxy>>

----------------------------------------------------------------------------
(* Bounds of the model *)

SlotMs == 3          \* clock steps per event slot (15 minutes in the program)
SecondMs == 2        \* clock steps per second (1000 in the program)
EventCount == 4      \* slots requested from the catalog (10 in the program)
MaxTime == 4         \* the clock stops here
MaxInFlight == 1     \* catalog fetches whose answer is awaited
MaxForced == 2       \* forced refreshes counted per slot

maxHistorySize == 2   \* 100 in the program

Null == -1           \* null / undefined: no price, no timer, no slug
\* tick values: two values tell a kept capture from an overwritten one, and
\* 0 is the value JavaScript takes for false
Prices == {0, 1}
\* the last instant of the third slot: two events have expired by then
GapTime == 3 * SlotMs - 1
\* tick timestamps: the capture engine does not read them
Stamps == {1}

Max(a, b) == IF a >= b THEN a ELSE b
Min(a, b) == IF a <= b THEN a ELSE b

----------------------------------------------------------------------------
(* Event catalog and lifecycle engine *)

StartTime(slug) == slug * SlotMs
EndTime(slug) == (slug + 1) * SlotMs
SlotOf(t) == t \div SlotMs

\* Status with the end instant still counted as active
StatusEndInclusive(slug, t) ==
  IF t < StartTime(slug) THEN "upcoming"
  ELSE IF t <= EndTime(slug) THEN "active"
  ELSE "expired"

\* status of an event at instant t
Status(slug, t) ==
  IF t < StartTime(slug) THEN "upcoming"
  ELSE IF t < EndTime(slug) THEN "active"
  ELSE "expired"

\* getEvents() with a clock that is one slot ahead
getEventsAhead(evs, t) ==
  [i \in 1..Len(evs) |-> [slug |-> evs[i], status |-> Status(evs[i], t + SlotMs)]]

\* getEvents(): the working list with statuses derived from the clock
getEvents(evs, t) == [i \in 1..Len(evs) |-> [slug |-> evs[i], status |-> Status(evs[i], t)]]

\* events.find(e => e.status === 'active') as an index, 0 when there is none
FindActive(evs, t) ==
  LET es == getEvents(evs, t)
      hits == {i \in 1..Len(es) : es[i].status = "active"}
  IN IF hits = {} THEN 0 ELSE CHOOSE i \in hits : \A j \in hits : i <= j

\* getCurrentEventIndex(): position of the Active event, -1 when there is none
getCurrentEventIndex(evs, t) == FindActive(evs, t) - 1

\* getNext15MinIntervals(count) at instant t: the slot of t and those after it
getNext15MinIntervals(count, t) == [i \in 1..count |-> SlotOf(t) + i - 1]

\* the catalog's answer to a fetch that went out in slot first
Window(first, count) == [i \in 1..count |-> first + i - 1]

----------------------------------------------------------------------------
(* StreamingPlatform: the synchronous methods, as functions on the state   *)
(* one handler works on.  s is a record of the fields a handler reads and  *)
(* writes; the clock does not move while a handler runs.                   *)

EmptyMap == [k \in {} |-> 0]
Has(map, slug) == slug \in DOMAIN map
Set(map, slug, v) == [k \in DOMAIN map \cup {slug} |-> IF k = slug THEN v ELSE map[k]]

\* formatCountdown(seconds) as <<hours, minutes, secs>>
formatCountdown(seconds) ==
  IF seconds <= 0 THEN <<0, 0, 0>>
  ELSE <<seconds \div 3600, (seconds % 3600) \div 60, seconds % 60>>

stopCountdown(s) ==
  IF s.countdownInterval # Null
    THEN [s EXCEPT !.liveTimers = @ \ {s.countdownInterval},
                   !.countdownInterval = Null]
    ELSE s

\* EventManager.loadEvents(10) up to its await: one more fetch in flight.
\* At most MaxInFlight answers are awaited; a fetch beyond that is never answered.
issueFetch(s, kind) ==
  IF BagCardinality(s.pending) < MaxInFlight
    THEN [s EXCEPT !.pending = @ (+) SetToBag({[kind |-> kind, slot |-> SlotOf(s.now)]})]
    ELSE s

\* this.loadEvents() up to its first await
loadEventsCall(s, kind) == issueFetch(s, kind)

\* the seconds left rounded up instead of down
TimeLeftRoundsUp(s, idx) ==
  Max(0, (EndTime(s.events[idx]) - s.now + SecondMs - 1) \div SecondMs)

\* seconds left for the event at index idx
TimeLeft(s, idx) == Max(0, (EndTime(s.events[idx]) - s.now) \div SecondMs)

\* expiryCapture without the has() test: the countdown overwrites
expiryCaptureOverwrites(s) ==
  LET activeIndex == FindActive(s.events, s.now)
  IN IF s.currentPrice # Null /\ activeIndex # 0
        /\ activeIndex + 1 <= Len(s.events)
       THEN [s EXCEPT !.eventLastPrice =
                         Set(@, s.events[activeIndex + 1], s.currentPrice)]
       ELSE s

\* the capture at remaining = 0, lines 260-270
expiryCapture(s) ==
  LET activeIndex == FindActive(s.events, s.now)
  IN IF s.currentPrice # Null /\ activeIndex # 0
        /\ activeIndex + 1 <= Len(s.events)
        /\ ~Has(s.eventLastPrice, s.events[activeIndex + 1])
       THEN [s EXCEPT !.eventLastPrice =
                         Set(@, s.events[activeIndex + 1], s.currentPrice)]
       ELSE s

\* the forced refresh is counted, up to MaxForced, for the slot of the clock:
\* it is the slot of the event whose countdown ran out
countForced(s) == [s EXCEPT !.obs.forcedCount = Min(@ + 1, MaxForced)]

\* updateCountdown that refreshes at remaining = 0 and goes on ticking
updateCountdownKeepsTicking(s) ==
  LET idx == FindActive(s.events, s.now)
  IN IF idx = 0 \/ s.panel.kind # "active"
       THEN stopCountdown(s)
       ELSE LET timeLeft == TimeLeft(s, idx)
                s1 == [s EXCEPT !.countdownText = formatCountdown(timeLeft)]
            IN IF timeLeft = 0
                 THEN loadEventsCall(countForced(expiryCapture(s1)), "forced")
                 ELSE s1

updateCountdown(s) ==
  LET idx == FindActive(s.events, s.now)
  IN IF idx = 0 \/ s.panel.kind # "active"
       THEN stopCountdown(s)
       ELSE LET timeLeft == TimeLeft(s, idx)
                s1 == [s EXCEPT !.countdownText = formatCountdown(timeLeft)]
            IN IF timeLeft = 0
                 THEN loadEventsCall(
                        countForced(stopCountdown(expiryCapture(s1))),
                        "forced")
                 ELSE s1

\* window.setInterval: an id no live timer has
TimerIds == 0..2
setInterval(live) == CHOOSE id \in TimerIds : id \notin live /\ \A j \in TimerIds \ live : id <= j

\* startCountdown without its first line: the previous timer is left running
startCountdownLeaks(s) ==
  LET s1 == [s EXCEPT !.obs.restarted = @ \/ s.countdownInterval # Null]
      timer == setInterval(s1.liveTimers)
      s2 == [s1 EXCEPT !.countdownInterval = timer,
                       !.liveTimers = @ \cup {timer}]
  IN updateCountdown(s2)

\* obs.restarted: the driver was running when startCountdown was called
startCountdown(s) ==
  LET s1 == stopCountdown([s EXCEPT !.obs.restarted = @ \/ s.countdownInterval # Null])
      timer == setInterval(s1.liveTimers)
      s2 == [s1 EXCEPT !.countdownInterval = timer,
                       !.liveTimers = @ \cup {timer}]
  IN updateCountdown(s2)

\* #active-event-display without an active event
LoadingPanel == [kind |-> "loading", slug |-> Null, price |-> Null, current |-> FALSE]
EmptyPanel == [kind |-> "empty", slug |-> Null, price |-> Null, current |-> FALSE]

\* '--:--:--', also the text when the countdown element does not exist
NoCountdown == <<>>

\* what the panel shows as "Price to Beat"
PanelOf(s, slug) ==
  IF Has(s.eventPriceToBeat, slug)
    THEN [kind |-> "active", slug |-> slug,
          price |-> s.eventPriceToBeat[slug], current |-> FALSE]
    ELSE IF s.currentPrice # Null
      THEN [kind |-> "active", slug |-> slug, price |-> s.currentPrice, current |-> TRUE]
      ELSE [kind |-> "active", slug |-> slug, price |-> Null, current |-> FALSE]

\* renderActiveEvent without its last line: the panel is drawn and the
\* countdown is not started
renderActiveEventNoCountdown(s) ==
  LET idx == FindActive(s.events, s.now)
  IN IF idx = 0
       THEN [stopCountdown(s) EXCEPT !.panel = EmptyPanel, !.countdownText = NoCountdown]
       ELSE LET slug == s.events[idx]
                s1 == IF ~Has(s.eventPriceToBeat, slug) /\ s.currentPrice # Null
                        THEN [s EXCEPT !.eventPriceToBeat = Set(@, slug, s.currentPrice)]
                        ELSE s
            IN [s1 EXCEPT !.panel = PanelOf(s, slug),
                          !.countdownText = NoCountdown]

renderActiveEvent(s) ==
  LET idx == FindActive(s.events, s.now)
  IN IF idx = 0
       THEN [stopCountdown(s) EXCEPT !.panel = EmptyPanel, !.countdownText = NoCountdown]
       ELSE LET slug == s.events[idx]
                s1 == IF ~Has(s.eventPriceToBeat, slug) /\ s.currentPrice # Null
                        THEN [s EXCEPT !.eventPriceToBeat = Set(@, slug, s.currentPrice)]
                        ELSE s
                s2 == [s1 EXCEPT !.panel = PanelOf(s, slug),
                                 !.countdownText = NoCountdown]
            IN startCountdown(s2)

\* capturePriceForActiveEvent without the has() test: every call captures
capturePriceForActiveEventOverwrites(s) ==
  IF s.currentPrice = Null THEN s
  ELSE LET idx == FindActive(s.events, s.now)
       IN IF idx # 0
            THEN renderActiveEvent(
                   [s EXCEPT !.eventPriceToBeat = Set(@, s.events[idx], s.currentPrice)])
            ELSE s

capturePriceForActiveEvent(s) ==
  IF s.currentPrice = Null THEN s
  ELSE LET idx == FindActive(s.events, s.now)
       IN IF idx # 0 /\ ~Has(s.eventPriceToBeat, s.events[idx])
            THEN renderActiveEvent(
                   [s EXCEPT !.eventPriceToBeat = Set(@, s.events[idx], s.currentPrice)])
            ELSE s

\* the clock read again later in the same handler: d steps have passed
ClockDrift(s, d) == [s EXCEPT !.now = @ + d]

\* capturePriceForActiveEvent when the clock moves between its getEvents()
\* and the getEvents() of the renderActiveEvent it calls
capturePriceForActiveEventDrift(s, d) ==
  IF s.currentPrice = Null THEN s
  ELSE LET idx == FindActive(s.events, s.now)
       IN IF idx # 0 /\ ~Has(s.eventPriceToBeat, s.events[idx])
            THEN renderActiveEvent(
                   ClockDrift([s EXCEPT !.eventPriceToBeat =
                                           Set(@, s.events[idx], s.currentPrice)], d))
            ELSE ClockDrift(s, d)

\* the lastPrice cell of a row: eventLastPrice.get(slug) || event.lastPrice
RowOf(s, slug) ==
  IF Has(s.eventLastPrice, slug) /\ s.eventLastPrice[slug] # 0
    THEN s.eventLastPrice[slug]
    ELSE Null

renderEventsTable(s) ==
  LET s1 == renderActiveEvent(capturePriceForActiveEvent(s))
  IN [s1 EXCEPT !.tableRows = [i \in 1..Len(s1.events) |-> RowOf(s1, s1.events[i])]]

\* renderEventsTable when the clock moves between capturePriceForActiveEvent
\* and renderActiveEvent
renderEventsTableDrift(s, d) ==
  LET s1 == renderActiveEvent(ClockDrift(capturePriceForActiveEvent(s), d))
  IN [s1 EXCEPT !.tableRows = [i \in 1..Len(s1.events) |-> RowOf(s1, s1.events[i])]]

\* one step of the forEach of capturePriceForExpiredEvent, index i (1-based)
expiredStep(s, i) ==
  IF i > 1 /\ Status(s.events[i - 1], s.now) = "expired"
     /\ ~Has(s.eventLastPrice, s.events[i])
    THEN renderEventsTable(
           [s EXCEPT !.eventLastPrice = Set(@, s.events[i], s.currentPrice)])
    ELSE s

RECURSIVE expiredLoop(_, _)
expiredLoop(s, i) ==
  IF i > Len(s.events) THEN s ELSE expiredLoop(expiredStep(s, i), i + 1)

capturePriceForExpiredEvent(s) ==
  IF s.currentPrice = Null THEN s ELSE expiredLoop(s, 1)

\* one step of the forEach of updateLastPrices
lastPriceStep(s, i) ==
  IF i > 1 /\ Status(s.events[i - 1], s.now) = "expired"
     /\ ~Has(s.eventLastPrice, s.events[i])
    THEN [s EXCEPT !.eventLastPrice = Set(@, s.events[i], s.currentPrice)]
    ELSE s

RECURSIVE lastPriceLoop(_, _)
lastPriceLoop(s, i) ==
  IF i > Len(s.events) THEN s ELSE lastPriceLoop(lastPriceStep(s, i), i + 1)

\* updateLastPrices without the null test: the missing price is stored
updateLastPricesUnguarded(s) == lastPriceLoop(s, 1)

updateLastPrices(s) ==
  IF s.currentPrice = Null THEN s ELSE lastPriceLoop(s, 1)

\* the push followed by pop() instead of shift(): the newest entry goes
pushHistoryDropsNewest(h, stamp, value) ==
  LET h1 == Append(h, [timestamp |-> stamp, value |-> value])
  IN IF Len(h1) > maxHistorySize THEN SubSeq(h1, 1, Len(h1) - 1) ELSE h1

\* priceHistory.push(...) and the shift() that follows
pushHistory(h, stamp, value) ==
  LET h1 == Append(h, [timestamp |-> stamp, value |-> value])
  IN IF Len(h1) > maxHistorySize THEN Tail(h1) ELSE h1

----------------------------------------------------------------------------
(* The state a handler works on, and its write-back *)

S == [now |-> now, events |-> events, currentPrice |-> currentPrice,
      countdownInterval |-> countdownInterval, liveTimers |-> liveTimers,
      eventPriceToBeat |-> eventPriceToBeat,
      eventLastPrice |-> eventLastPrice, countdownText |-> countdownText,
      panel |-> panel, tableRows |-> tableRows, pending |-> pending,
      obs |-> [obs EXCEPT !.errorWrites = 0, !.restarted = FALSE]]

Commit(s) ==
  /\ events' = s.events
  /\ currentPrice' = s.currentPrice
  /\ countdownInterval' = s.countdownInterval
  /\ liveTimers' = s.liveTimers
  /\ eventPriceToBeat' = s.eventPriceToBeat
  /\ eventLastPrice' = s.eventLastPrice
  /\ countdownText' = s.countdownText
  /\ panel' = s.panel
  /\ tableRows' = s.tableRows
  /\ pending' = s.pending
  /\ obs' = s.obs
  /\ UNCHANGED proxy

----------------------------------------------------------------------------
(* The API proxy function: handler(req, res).  A string is the sequence of *)
(* its parts; "/api/proxy" is one part.                                    *)

ProxyPrefix == "/api/proxy"

\* s.startsWith(pre)
StartsWith(str, pre) == Len(str) >= Len(pre) /\ SubSeq(str, 1, Len(pre)) = pre

\* s.replace(pre, ''): the first occurrence of pre is taken out
ReplaceFirst(str, pre) ==
  LET hits == {i \in 1..(Len(str) - Len(pre) + 1) : SubSeq(str, i, i + Len(pre) - 1) = pre}
  IN IF hits = {} THEN str
     ELSE LET i == CHOOSE h \in hits : \A g \in hits : h <= g
          IN SubSeq(str, 1, i - 1) \o SubSeq(str, i + Len(pre), Len(str))

\* url.split('?')[0]
PathPart(url) ==
  LET marks == {i \in 1..Len(url) : url[i] = "?"}
  IN IF marks = {} THEN url
     ELSE SubSeq(url, 1, (CHOOSE m \in marks : \A g \in marks : m <= g) - 1)

\* items.join('/')
RECURSIVE Join(_)
Join(items) ==
  IF items = <<>> THEN <<>>
  ELSE IF Len(items) = 1 THEN items[1]
  ELSE items[1] \o <<"/">> \o Join(Tail(items))

\* req.query.path: absent, a string (one item) or an array of strings
NoPathParam == [kind |-> "absent", items |-> <<>>]
PathParams ==
  { NoPathParam,
    [kind |-> "string", items |-> << <<>> >>],
    [kind |-> "string", items |-> << <<"events">> >>],
    [kind |-> "array", items |-> << <<"events">>, <<"slug">> >>] }

\* JavaScript truthiness of req.query.path
Truthy(param) ==
  \/ param.kind = "array"
  \/ param.kind = "string" /\ param.items[1] # <<>>

\* req.url: absent, the prefix alone or followed by a path, with or without a
\* query string, and a path outside the prefix
Urls ==
  { <<>>,
    <<ProxyPrefix>>,
    <<ProxyPrefix, "/">>,
    <<ProxyPrefix, "/", "events">>,
    <<ProxyPrefix, "/", "events", "?", "limit">>,
    <<ProxyPrefix, "?", "limit">>,
    <<"/", "events">> }

Requests == [url : Urls, query : [path : PathParams, limit : BOOLEAN]]

\* lines 9-28: the API path of a request
ApiPath(req) ==
  LET pathPart == PathPart(req.url)
      fromUrl == IF req.url = <<>> THEN <<>>
                 ELSE IF StartsWith(pathPart, <<ProxyPrefix, "/">>)
                   THEN ReplaceFirst(pathPart, <<ProxyPrefix, "/">>)
                 ELSE IF StartsWith(pathPart, <<ProxyPrefix>>)
                   THEN ReplaceFirst(pathPart, <<ProxyPrefix>>)
                 ELSE <<>>
  IN IF fromUrl = <<>> /\ Truthy(req.query.path)
       THEN IF req.query.path.kind = "array"
              THEN Join(req.query.path.items)
              ELSE req.query.path.items[1]
       ELSE fromUrl

\* lines 31-47: the upstream URL, with the query parameters other than path
FullUrl(req) ==
  <<"https://gamma-api.polymarket.com/">> \o ApiPath(req)
    \o (IF req.query.limit THEN <<"?", "limit">> ELSE <<>>)

BadRequest == 400
ProxyFailure == 500
Success == 200

\* what the upstream fetch comes to: it throws, or it answers with a status
\* and a body that is JSON, not JSON, or cannot be read
NoOutcome == [kind |-> "none", status |-> 0, body |-> "none"]
Outcomes ==
  {[kind |-> "throws", status |-> 0, body |-> "none"]}
    \cup [kind : {"answer"}, status : {Success, 404, ProxyFailure},
          body : {"json", "invalid", "unreadable"}]

\* response.ok
Ok(outcome) == outcome.status \in 200..299

NoRequest == [url |-> <<>>, query |-> [path |-> NoPathParam, limit |-> FALSE]]

ProxyIdle == [stage |-> "idle", req |-> NoRequest, fetched |-> <<>>,
              outcome |-> NoOutcome, responses |-> <<>>]

\* the handler that fetches before it looks at the API path
proxyRequestFetchesFirst(req) ==
  /\ proxy.stage = "idle"
  /\ proxy' =
       IF ApiPath(req) = <<>>
         THEN [proxy EXCEPT !.stage = "done", !.req = req,
                            !.fetched = <<FullUrl(req)>>,
                            !.responses = Append(@, [status |-> BadRequest,
                                                     body |-> "noPath", cors |-> FALSE])]
         ELSE [proxy EXCEPT !.stage = "fetching", !.req = req,
                            !.fetched = <<FullUrl(req)>>]
  /\ UNCHANGED platformVars

\* handler(req, res) up to its first await, lines 9-63
proxyRequest(req) ==
  /\ proxy.stage = "idle"
  /\ proxy' =
       IF ApiPath(req) = <<>>
         THEN [proxy EXCEPT !.stage = "done", !.req = req,
                            !.responses = Append(@, [status |-> BadRequest,
                                                     body |-> "noPath", cors |-> FALSE])]
         ELSE [proxy EXCEPT !.stage = "fetching", !.req = req,
                            !.fetched = <<FullUrl(req)>>]
  /\ UNCHANGED platformVars

\* the rest of handler(req, res), lines 63-96: the fetch has come to outcome
proxyUpstream(outcome) ==
  /\ proxy.stage = "fetching"
  /\ LET response ==
           IF outcome.kind = "throws"
             THEN [status |-> ProxyFailure, body |-> "proxyError", cors |-> FALSE]
           ELSE IF ~Ok(outcome)
             THEN [status |-> outcome.status, body |-> "apiError", cors |-> FALSE]
           ELSE IF outcome.body # "json"
             THEN [status |-> ProxyFailure, body |-> "proxyError", cors |-> FALSE]
           ELSE [status |-> Success, body |-> "data", cors |-> TRUE]
     IN proxy' = [proxy EXCEPT !.stage = "done", !.outcome = outcome,
                               !.responses = Append(@, response)]
  /\ UNCHANGED platformVars

----------------------------------------------------------------------------
(* The page: initial state and handlers *)

Disconnected == [connected |-> FALSE, source |-> "null", lastUpdate |-> Null, error |-> "null"]
StatusInputs ==
  { [connected |-> TRUE, source |-> "chainlink", lastUpdate |-> 1, error |-> "null"],
    [connected |-> FALSE, source |-> "null", lastUpdate |-> Null, error |-> "lost"] }

Init ==
  /\ now = 0
  /\ events = <<>>
  /\ autoRefresh = FALSE
  /\ pending = EmptyBag
  /\ phase = "constructed"
  /\ socketOpen = FALSE
  /\ currentPrice = Null
  /\ priceHistory = <<>>
  /\ currentStatus = Disconnected
  /\ countdownInterval = Null
  /\ liveTimers = {}
  /\ eventPriceToBeat = EmptyMap
  /\ eventLastPrice = EmptyMap
  /\ countdownText = NoCountdown
  /\ panel = LoadingPanel
  /\ tableRows = <<>>
  /\ eventsError = ""
  /\ lastOp = "constructor"
  /\ proxy = ProxyIdle
  /\ obs = [forcedCount |-> 0, ticked |-> FALSE, errorWrites |-> 0, restarted |-> FALSE,
            resumed |-> FALSE]

----------------------------------------------------------------------------
(* Handlers *)

\* initialize(): render(), setupEventListeners(), loadEvents() up to its await
initialize ==
  /\ phase = "constructed"
  /\ phase' = "loading"
  /\ Commit(loadEventsCall([S EXCEPT !.panel = LoadingPanel, !.tableRows = <<>>], "init"))
  /\ lastOp' = "initialize"
  /\ UNCHANGED <<now, autoRefresh, socketOpen, priceHistory, currentStatus, eventsError>>

\* the clock moves between handlers, up to the instant limit
AdvanceWithin(limit) ==
  /\ now < limit
  /\ now' = now + 1
  /\ obs' = IF SlotOf(now') = SlotOf(now) THEN obs ELSE [obs EXCEPT !.forcedCount = 0]
  /\ lastOp' = "advance"
  /\ UNCHANGED <<events, autoRefresh, pending, phase, socketOpen, currentPrice,
                 priceHistory, currentStatus, countdownInterval, liveTimers,
                 eventPriceToBeat, eventLastPrice, countdownText, panel, tableRows,
                 eventsError, proxy>>

Advance == AdvanceWithin(MaxTime)

AdvanceGap == AdvanceWithin(GapTime)

\* handlePriceUpdate that takes the price only from a tick whose timestamp is
\* not older than the last one recorded
handlePriceUpdateNewestStamp(value, stamp) ==
  /\ socketOpen
  /\ priceHistory' = pushHistory(priceHistory, stamp, value)
  /\ LET fresh == priceHistory = <<>> \/ stamp >= priceHistory[Len(priceHistory)].timestamp
         s0 == [S EXCEPT !.currentPrice = IF fresh THEN value ELSE @,
                         !.obs.ticked = TRUE]
     IN Commit(capturePriceForExpiredEvent(capturePriceForActiveEvent(s0)))
  /\ lastOp' = "tick"
  /\ UNCHANGED <<now, autoRefresh, phase, socketOpen, currentStatus, eventsError>>

handlePriceUpdate(value, stamp) ==
  /\ socketOpen
  /\ priceHistory' = pushHistory(priceHistory, stamp, value)
  /\ LET s0 == [S EXCEPT !.currentPrice = value, !.obs.ticked = TRUE]
     IN Commit(capturePriceForExpiredEvent(capturePriceForActiveEvent(s0)))
  /\ lastOp' = "tick"
  /\ UNCHANGED <<now, autoRefresh, phase, socketOpen, currentStatus, eventsError>>

\* steps the clock moves while one handler runs
Drifts == {1}

\* handlePriceUpdate while the clock moves on
handlePriceUpdateDrift(value, stamp, d) ==
  /\ socketOpen
  /\ now + d <= MaxTime - 1
  /\ priceHistory' = pushHistory(priceHistory, stamp, value)
  /\ LET s0 == [S EXCEPT !.currentPrice = value, !.obs.ticked = TRUE]
         s1 == capturePriceForExpiredEvent(capturePriceForActiveEventDrift(s0, d))
     IN Commit(s1) /\ now' = s1.now
  /\ lastOp' = "tick"
  /\ UNCHANGED <<autoRefresh, phase, socketOpen, currentStatus, eventsError>>

\* the interval callback of startCountdown
countdownTick(timer) ==
  /\ timer \in liveTimers
  /\ Commit(updateCountdown(S))
  /\ lastOp' = "countdown"
  /\ UNCHANGED <<now, autoRefresh, phase, socketOpen, priceHistory, currentStatus,
                 eventsError>>

\* click on #connect, and the feed's notification that the socket is open.
\* obs.resumed: the feed is opened again after a click on #disconnect that
\* followed a tick
connect ==
  /\ phase # "constructed"
  /\ ~socketOpen
  /\ socketOpen' = TRUE
  /\ currentStatus' = CHOOSE st \in StatusInputs : st.connected
  /\ obs' = [obs EXCEPT !.resumed = @ \/ (currentPrice # Null /\ currentStatus = Disconnected)]
  /\ lastOp' = "connect"
  /\ UNCHANGED <<now, events, autoRefresh, pending, phase, currentPrice, priceHistory,
                 countdownInterval, liveTimers, eventPriceToBeat,
                 eventLastPrice, countdownText, panel, tableRows, eventsError, proxy>>

\* the feed reports a lost connection
handleStatusChange(status) ==
  /\ socketOpen
  /\ ~status.connected
  /\ socketOpen' = FALSE
  /\ currentStatus' = status
  /\ lastOp' = "status"
  /\ UNCHANGED <<now, events, autoRefresh, pending, phase, currentPrice, priceHistory,
                 countdownInterval, liveTimers, eventPriceToBeat,
                 eventLastPrice, countdownText, panel, tableRows, eventsError, obs,
                 proxy>>

\* a click on #disconnect that also forgets the price and its history
disconnectClears ==
  /\ phase # "constructed"
  /\ socketOpen' = FALSE
  /\ currentStatus' = Disconnected
  /\ currentPrice' = Null
  /\ priceHistory' = <<>>
  /\ lastOp' = "disconnect"
  /\ UNCHANGED <<now, events, autoRefresh, pending, phase,
                 countdownInterval, liveTimers, eventPriceToBeat,
                 eventLastPrice, countdownText, panel, tableRows, eventsError, obs,
                 proxy>>

\* click on #disconnect
disconnect ==
  /\ phase # "constructed"
  /\ socketOpen' = FALSE
  /\ currentStatus' = Disconnected
  /\ lastOp' = "disconnect"
  /\ UNCHANGED <<now, events, autoRefresh, pending, phase, currentPrice, priceHistory,
                 countdownInterval, liveTimers, eventPriceToBeat,
                 eventLastPrice, countdownText, panel, tableRows, eventsError, obs,
                 proxy>>

\* the interval callback of EventManager.startAutoRefresh: a fetch goes out
autoRefreshTick ==
  /\ autoRefresh
  /\ BagCardinality(pending) < MaxInFlight
  /\ Commit(issueFetch(S, "auto"))
  /\ lastOp' = "autoTick"
  /\ UNCHANGED <<now, autoRefresh, phase, socketOpen, priceHistory, currentStatus,
                 eventsError>>

\* what follows `await this.loadEvents()` in initialize()
afterLoad(m) ==
  IF m.kind = "init"
    THEN phase' = "running" /\ autoRefresh' = TRUE
    ELSE UNCHANGED <<phase, autoRefresh>>

\* loadEvents() that forgets the captures before it evaluates the new list
loadEventsResolvedForgets(m) ==
  /\ BagIn(m, pending)
  /\ m.kind # "auto"
  /\ LET s0 == [S EXCEPT !.pending = @ (-) SetToBag({m}),
                         !.events = Window(m.slot, EventCount),
                         !.eventPriceToBeat = EmptyMap,
                         !.eventLastPrice = EmptyMap]
     IN Commit(renderEventsTable(updateLastPrices(s0)))
  /\ eventsError' = ""
  /\ afterLoad(m)
  /\ lastOp' = "loaded"
  /\ UNCHANGED <<now, socketOpen, priceHistory, currentStatus>>

\* loadEvents(), try branch: the fetch m is answered
loadEventsResolved(m) ==
  /\ BagIn(m, pending)
  /\ m.kind # "auto"
  /\ LET s0 == [S EXCEPT !.pending = @ (-) SetToBag({m}),
                         !.events = Window(m.slot, EventCount)]
     IN Commit(renderEventsTable(updateLastPrices(s0)))
  /\ eventsError' = ""
  /\ afterLoad(m)
  /\ lastOp' = "loaded"
  /\ UNCHANGED <<now, socketOpen, priceHistory, currentStatus>>

\* events of a partial catalog answer
PartialCount == 1

\* loadEvents(), try branch, when the catalog returns only the first
\* PartialCount of the requested events
loadEventsPartial(m) ==
  /\ BagIn(m, pending)
  /\ m.kind # "auto"
  /\ LET s0 == [S EXCEPT !.pending = @ (-) SetToBag({m}),
                         !.events = Window(m.slot, PartialCount)]
     IN Commit(renderEventsTable(updateLastPrices(s0)))
  /\ eventsError' = ""
  /\ afterLoad(m)
  /\ lastOp' = "loaded"
  /\ UNCHANGED <<now, socketOpen, priceHistory, currentStatus>>

\* loadEvents(), try branch, while the clock moves on
loadEventsResolvedDrift(m, d) ==
  /\ BagIn(m, pending)
  /\ m.kind # "auto"
  /\ now + d <= MaxTime - 1
  /\ LET s0 == [S EXCEPT !.pending = @ (-) SetToBag({m}),
                         !.events = Window(m.slot, EventCount)]
         s1 == renderEventsTableDrift(updateLastPrices(s0), d)
     IN Commit(s1) /\ now' = s1.now
  /\ eventsError' = ""
  /\ afterLoad(m)
  /\ lastOp' = "loaded"
  /\ UNCHANGED <<socketOpen, priceHistory, currentStatus>>

\* loadEvents() whose catch branch leaves #events-error alone
loadEventsFailedSilently(m) ==
  /\ BagIn(m, pending)
  /\ m.kind # "auto"
  /\ LET s0 == [S EXCEPT !.pending = @ (-) SetToBag({m})]
     IN Commit(renderEventsTable(updateLastPrices(s0)))
  /\ UNCHANGED eventsError
  /\ afterLoad(m)
  /\ lastOp' = "loadFailed"
  /\ UNCHANGED <<now, socketOpen, priceHistory, currentStatus>>

\* loadEvents(), catch branch: the fetch of m failed or came back empty
loadEventsFailed(m) ==
  /\ BagIn(m, pending)
  /\ m.kind # "auto"
  /\ LET s0 == [S EXCEPT !.pending = @ (-) SetToBag({m}),
                         !.obs.errorWrites = @ + 1]
     IN IF Len(getNext15MinIntervals(EventCount, now)) > 0
          THEN Commit(renderEventsTable(updateLastPrices(s0)))
          ELSE Commit(s0)
  /\ eventsError' = "Failed to load events"
  /\ afterLoad(m)
  /\ lastOp' = "loadFailed"
  /\ UNCHANGED <<now, socketOpen, priceHistory, currentStatus>>

\* an auto-refresh fetch is answered: the list is replaced and onEventsUpdated runs
eventsUpdated(m) ==
  /\ BagIn(m, pending)
  /\ m.kind = "auto"
  /\ LET s0 == [S EXCEPT !.pending = @ (-) SetToBag({m}),
                         !.events = Window(m.slot, EventCount)]
     IN Commit(renderEventsTable(s0))
  /\ lastOp' = "eventsUpdated"
  /\ UNCHANGED <<now, autoRefresh, phase, socketOpen, priceHistory, currentStatus,
                 eventsError>>

\* an auto-refresh fetch failed: the EventManager keeps its list
autoRefreshFailed(m) ==
  /\ BagIn(m, pending)
  /\ m.kind = "auto"
  /\ Commit([S EXCEPT !.pending = @ (-) SetToBag({m})])
  /\ lastOp' = "autoFailed"
  /\ UNCHANGED <<now, autoRefresh, phase, socketOpen, priceHistory, currentStatus,
                 eventsError>>

Fetches == [kind : {"init", "forced", "auto"}, slot : 0..SlotOf(Max(MaxTime, GapTime))]

\* the handlers of the capture engine: catalog, ticks and timers
Handlers ==
  \/ initialize
  \/ connect
  \/ \E value \in Prices, stamp \in Stamps : handlePriceUpdate(value, stamp)
  \/ \E timer \in TimerIds : countdownTick(timer)
  \/ autoRefreshTick
  \/ \E m \in Fetches : loadEventsResolved(m)
  \/ \E m \in Fetches : loadEventsFailed(m)
  \/ \E m \in Fetches : eventsUpdated(m)
  \/ \E m \in Fetches : autoRefreshFailed(m)

Next == Advance \/ Handlers

Spec == Init /\ [][Next]_vars

\* the engine over three slots, long enough for two events to expire
NextGap == AdvanceGap \/ Handlers

SpecGap == Init /\ [][NextGap]_vars

\* the engine with a catalog that may answer with a partial list
NextTail ==
  \/ Next
  \/ \E m \in Fetches : loadEventsPartial(m)

SpecTail == Init /\ [][NextTail]_vars

\* the first instant of the second slot: the first event has expired
FeedTime == MaxTime - 1

AdvanceFeed == AdvanceWithin(FeedTime)

\* the engine with a feed that drops and is disconnected
NextFeed ==
  \/ AdvanceFeed
  \/ Handlers
  \/ \E status \in StatusInputs : handleStatusChange(status)
  \/ disconnect

SpecFeed == Init /\ [][NextFeed]_vars

\* one invocation of the API proxy function
NextProxy ==
  \/ \E req \in Requests : proxyRequest(req)
  \/ \E outcome \in Outcomes : proxyUpstream(outcome)

SpecProxy == Init /\ [][NextProxy]_vars

\* the engine with a clock that moves while a handler runs
NextDrift ==
  \/ AdvanceFeed
  \/ Handlers
  \/ \E value \in Prices, stamp \in Stamps, d \in Drifts :
       handlePriceUpdateDrift(value, stamp, d)
  \/ \E m \in Fetches, d \in Drifts : loadEventsResolvedDrift(m, d)

SpecDrift == Init /\ [][NextDrift]_vars

\* tick timestamps of a feed that delivers out of order: the later tick may
\* carry the earlier timestamp
LateStamps == {0}

\* the engine with a feed whose ticks arrive out of timestamp order
NextTicks ==
  \/ AdvanceFeed
  \/ Handlers
  \/ \E value \in Prices, stamp \in LateStamps : handlePriceUpdate(value, stamp)

SpecTicks == Init /\ [][NextTicks]_vars

----------------------------------------------------------------------------
(* Properties *)

\* entries of a write-once map are kept by a step
Kept(map, map2) == \A slug \in DOMAIN map : slug \in DOMAIN map2 /\ map2[slug] = map[slug]

\* index of slug in the list evs, 0 when absent
IndexOf(evs, slug) ==
  IF \E i \in 1..Len(evs) : evs[i] = slug
    THEN CHOOSE i \in 1..Len(evs) : evs[i] = slug
    ELSE 0

\* the event at index i of evs follows an Expired one at instant t
AfterExpired(evs, i, t) == i > 1 /\ i <= Len(evs) /\ Status(evs[i - 1], t) = "expired"

\* C1: once priceToBeat[slug] holds a value, no step changes or removes it.
C1_PriceToBeatWriteOnce == [][Kept(eventPriceToBeat, eventPriceToBeat')]_vars

\* a tick with another value arrived for the Active event and its price to
\* beat is still the first one
C1_Witness ==
  /\ lastOp = "tick"
  /\ FindActive(events, now) # 0
  /\ Has(eventPriceToBeat, events[FindActive(events, now)])
  /\ eventPriceToBeat[events[FindActive(events, now)]] # currentPrice

\* C2: once lastPrice[slug] holds a value, no step of any writer changes or
\* removes it.
C2_LastPriceWriteOnce == [][Kept(eventLastPrice, eventLastPrice')]_vars

\* a refresh came back in the last second of the Active event, so the render
\* ran the expiry capture with another price known, and the next event's last
\* price is still the first one
C2_Witness ==
  /\ lastOp = "loaded"
  /\ currentPrice # Null
  /\ \E i \in 2..Len(events) :
       /\ Status(events[i - 1], now) = "active"
       /\ TimeLeft(S, i - 1) = 0
       /\ obs.forcedCount >= 1
       /\ Has(eventLastPrice, events[i])
       /\ eventLastPrice[events[i]] # currentPrice

\* C3: with no captures and a list Expired, Expired, .., Active, .., one tick
\* with value V captures lastPrice = V for every event after an Expired one,
\* priceToBeat = V for the Active one, and no lastPrice for any other event.
C3_MultiExpiryGap ==
  [][(/\ lastOp' = "tick"
      /\ eventPriceToBeat = EmptyMap
      /\ eventLastPrice = EmptyMap
      /\ FindActive(events, now) >= 3)
     => (/\ Has(eventPriceToBeat', events[FindActive(events, now)])
         /\ eventPriceToBeat'[events[FindActive(events, now)]] = currentPrice'
         /\ \A i \in 1..Len(events) :
              IF AfterExpired(events, i, now)
                THEN Has(eventLastPrice', events[i])
                     /\ eventLastPrice'[events[i]] = currentPrice'
                ELSE ~Has(eventLastPrice', events[i]))]_vars

\* C4: the expiry of one event triggers the forced catalog refresh once: at
\* most one forced refresh goes out while one event is the Active one.
C4_RefreshOncePerExpiry == obs.forcedCount <= 1

\* C5: a lastPrice entry is written only while the event before it in the
\* list is Expired.
C5_LastPriceOnlyAfterExpired ==
  [][\A slug \in DOMAIN eventLastPrice' \ DOMAIN eventLastPrice :
       AfterExpired(events', IndexOf(events', slug), now')]_vars

\* C6: along the list the statuses read Expired*, at most one Active,
\* Upcoming*, and the lookup of the active event finds that one event.
Rank(status) == IF status = "expired" THEN 0 ELSE IF status = "active" THEN 1 ELSE 2

C6_StatusPattern ==
  LET es == getEvents(events, now)
  IN /\ \A i, j \in 1..Len(es) :
          i < j => /\ Rank(es[i].status) <= Rank(es[j].status)
                   /\ ~(es[i].status = "active" /\ es[j].status = "active")
     /\ \A i \in 1..Len(es) : es[i].status = "active" => FindActive(events, now) = i

\* an Expired, the Active and an Upcoming event are in the list
C6_Witness ==
  /\ Len(events) >= 3
  /\ Status(events[1], now) = "expired"
  /\ Status(events[2], now) = "active"
  /\ Status(events[3], now) = "upcoming"

C8_RulesAppliedEverywhere ==
  (lastOp \in {"tick", "loaded", "loadFailed", "eventsUpdated"} /\ currentPrice # Null)
    => /\ FindActive(events, now) # 0
            => Has(eventPriceToBeat, events[FindActive(events, now)])
       /\ \A i \in 1..Len(events) :
            AfterExpired(events, i, now) => Has(eventLastPrice, events[i])

\* C9: a tick with value V while the Active event has no priceToBeat entry
\* sets priceToBeat[active] = V and creates no other priceToBeat entry; when
\* the first event is the Active one the tick creates no lastPrice entry.
C9_TickCapturesActiveOnly ==
  [][(/\ lastOp' = "tick"
      /\ FindActive(events, now) # 0
      /\ ~Has(eventPriceToBeat, events[FindActive(events, now)]))
     => (/\ Has(eventPriceToBeat', events[FindActive(events, now)])
         /\ eventPriceToBeat'[events[FindActive(events, now)]] = currentPrice'
         /\ DOMAIN eventPriceToBeat' \ DOMAIN eventPriceToBeat
              = {events[FindActive(events, now)]}
         /\ FindActive(events, now) = 1
              => DOMAIN eventLastPrice' = DOMAIN eventLastPrice)]_vars

\* C10: as long as no tick was received both capture maps are empty.
C10_NoTickNoCapture ==
  ~obs.ticked => eventPriceToBeat = EmptyMap /\ eventLastPrice = EmptyMap

\* a refresh came back with an Expired event in the list before the first tick
C10_Witness ==
  /\ ~obs.ticked
  /\ lastOp = "loaded"
  /\ \E i \in 1..Len(events) : AfterExpired(events, i, now)

\* slugs a step adds to a capture map
Added(map, map2) == DOMAIN map2 \ DOMAIN map

\* C11: a first-time capture is followed by a render that shows the captured
\* value: the panel shows a new priceToBeat at the end of the capturing
\* handler, the table shows a lastPrice captured by the tick rule at the end of
\* the tick, and after a refresh has resolved or failed the table shows every
\* lastPrice entry of the listed events, whichever path captured it.
C11_CaptureIsRendered ==
  [][/\ \A slug \in Added(eventPriceToBeat, eventPriceToBeat') :
          /\ panel'.kind = "active"
          /\ panel'.slug = slug
          /\ panel'.price = eventPriceToBeat'[slug]
     /\ lastOp' = "tick"
          => \A i \in 1..Len(events') :
               (/\ AfterExpired(events', i, now')
                /\ events'[i] \in Added(eventLastPrice, eventLastPrice'))
                 => tableRows'[i] = eventLastPrice'[events'[i]]
     /\ lastOp' \in {"loaded", "loadFailed"}
          => \A i \in 1..Len(events') :
               Has(eventLastPrice', events'[i])
                 => tableRows'[i] = eventLastPrice'[events'[i]]]_vars

\* C16: a captured 0 counts as captured: a zero entry of either map is never
\* replaced, and every render of the table shows a captured lastPrice as a
\* value, never as the placeholder.
C16_ZeroIsCaptured ==
  /\ [][/\ \A slug \in DOMAIN eventPriceToBeat :
             eventPriceToBeat[slug] = 0
               => Has(eventPriceToBeat', slug) /\ eventPriceToBeat'[slug] = 0
        /\ \A slug \in DOMAIN eventLastPrice :
             eventLastPrice[slug] = 0
               => Has(eventLastPrice', slug) /\ eventLastPrice'[slug] = 0]_vars
  /\ [](lastOp \in {"loaded", "loadFailed", "eventsUpdated"}
          => \A i \in 1..Len(events) :
               Has(eventLastPrice, events[i]) => tableRows[i] # Null)

\* C12: the countdown has a single owner: the only live interval timer is the
\* one countdownInterval names, so at most one is live, a restart has cancelled
\* the previous one, and after stopCountdown none is live and none can fire.
C12_SingleTimerOwner ==
  liveTimers = IF countdownInterval = Null THEN {} ELSE {countdownInterval}

\* a render restarted the countdown while its timer was running
C12_Witness ==
  /\ obs.restarted
  /\ lastOp \in {"tick", "loaded", "loadFailed", "eventsUpdated"}
  /\ countdownInterval # Null
  /\ Cardinality(liveTimers) = 1

\* C13: catalog refreshes do not overlap: a countdown tick or a price tick that
\* runs while a fetch is in flight issues no forced refresh, and no handler
\* issues a second forced refresh while its first one is in flight.
C13_RefreshNotReentrant ==
  [][IF pending # EmptyBag /\ lastOp' \in {"countdown", "tick"}
       THEN obs'.forcedCount = obs.forcedCount
       ELSE obs'.forcedCount <= obs.forcedCount + 1]_vars

\* C14: a click on #disconnect sets the connection status to the all-null
\* disconnected record and changes neither currentPrice, the price history,
\* the captures nor the event list; opening the feed again changes none of
\* them either, and no later step changes a capture made before.
C14_DisconnectFrame ==
  [][/\ lastOp' = "disconnect" => currentStatus' = Disconnected
     /\ lastOp' \in {"disconnect", "connect"}
          => UNCHANGED <<currentPrice, priceHistory, eventPriceToBeat,
                         eventLastPrice, events>>
     /\ Kept(eventPriceToBeat, eventPriceToBeat')
     /\ Kept(eventLastPrice, eventLastPrice')]_vars

\* after a disconnect and a reconnect a tick with another value arrived, and a
\* price to beat captured before is still there with its first value
C14_Witness ==
  /\ obs.resumed
  /\ lastOp = "tick"
  /\ \E slug \in DOMAIN eventPriceToBeat : eventPriceToBeat[slug] # currentPrice

\* C15: the tick received last is authoritative whatever its timestamp: after
\* a tick currentPrice is the value of that tick (the entry the handler
\* appended to the history), no other handler changes currentPrice, and every
\* entry a step adds to a capture map is the currentPrice of that moment.
C15_LatestTickAuthoritative ==
  [][/\ IF lastOp' = "tick"
          THEN currentPrice' = priceHistory'[Len(priceHistory')].value
          ELSE currentPrice' = currentPrice
     /\ \A slug \in Added(eventPriceToBeat, eventPriceToBeat') :
          eventPriceToBeat'[slug] = currentPrice'
     /\ \A slug \in Added(eventLastPrice, eventLastPrice') :
          eventLastPrice'[slug] = currentPrice']_vars

\* the last tick carries an older timestamp and another value than the one
\* before it, it is the current price, and a capture holds its value
C15_Witness ==
  /\ lastOp = "tick"
  /\ Len(priceHistory) = 2
  /\ priceHistory[2].timestamp < priceHistory[1].timestamp
  /\ priceHistory[2].value # priceHistory[1].value
  /\ currentPrice = priceHistory[2].value
  /\ \E slug \in DOMAIN eventLastPrice : eventLastPrice[slug] = currentPrice

\* C17: a countdown tick that computes remaining = 0 records currentPrice as
\* the lastPrice of the event after the Active one when a price is known and
\* that event exists and has no entry, and writes no other capture; it leaves
\* no timer live and issues one catalog refresh, also when nothing is captured.
C17_ExpirySequence ==
  [][(/\ lastOp' = "countdown"
      /\ FindActive(events, now) # 0
      /\ panel.kind = "active"
      /\ TimeLeft(S, FindActive(events, now)) = 0)
     => LET next == FindActive(events, now) + 1
        IN /\ eventLastPrice' =
                IF /\ currentPrice # Null
                   /\ next <= Len(events)
                   /\ ~Has(eventLastPrice, events[next])
                  THEN Set(eventLastPrice, events[next], currentPrice)
                  ELSE eventLastPrice
           /\ eventPriceToBeat' = eventPriceToBeat
           /\ countdownInterval' = Null
           /\ liveTimers' = {}
           /\ obs'.forcedCount = Min(obs.forcedCount + 1, MaxForced)
           /\ pending' = IF BagCardinality(pending) < MaxInFlight
                           THEN pending (+) SetToBag({[kind |-> "forced", slot |-> SlotOf(now)]})
                           ELSE pending]_vars

\* the countdown timer fired in the last second of the Active event with a
\* price known: the next event has its lastPrice, the timer is gone and the
\* one forced refresh of this slot is out
C17_Witness ==
  /\ lastOp = "countdown"
  /\ currentPrice # Null
  /\ FindActive(events, now) # 0
  /\ FindActive(events, now) < Len(events)
  /\ TimeLeft(S, FindActive(events, now)) = 0
  /\ Has(eventLastPrice, events[FindActive(events, now) + 1])
  /\ liveTimers = {}
  /\ obs.forcedCount = 1

\* C18: the countdown is Idle or Running with the Active event: a timer is
\* live only under a panel rendered for an Active event; after a countdown
\* tick it is live only if the Active event has time left; after a render of
\* the list it is live exactly if an Active event with time left was found;
\* and in a run where ticks or refresh answers keep being handled, an event
\* that is Active with time left gets its countdown running.
Running == countdownInterval # Null

ActiveWithTimeLeft ==
  /\ FindActive(events, now) # 0
  /\ TimeLeft(S, FindActive(events, now)) > 0

C19_TickDuringRefresh ==
  [][/\ (lastOp' = "tick" /\ pending # EmptyBag)
          => /\ currentPrice' = priceHistory'[Len(priceHistory')].value
             /\ events' = events
             /\ pending \sqsubseteq pending'
             /\ FindActive(events, now) # 0
                  => Has(eventPriceToBeat', events[FindActive(events, now)])
             /\ \A i \in 1..Len(events) :
                  AfterExpired(events, i, now) => Has(eventLastPrice', events[i])
     /\ lastOp' \in {"loaded", "loadFailed", "eventsUpdated", "autoFailed"}
          => /\ Kept(eventPriceToBeat, eventPriceToBeat')
             /\ Kept(eventLastPrice, eventLastPrice')
             /\ currentPrice' = currentPrice
             /\ priceHistory' = priceHistory]_vars

\* a tick arrived while a fetch was in flight and captured under both rules
\* against the list loaded before
C19_Witness ==
  /\ lastOp = "tick"
  /\ pending # EmptyBag
  /\ FindActive(events, now) # 0
  /\ eventPriceToBeat[events[FindActive(events, now)]] = currentPrice
  /\ \E i \in 1..Len(events) :
       /\ AfterExpired(events, i, now)
       /\ Has(eventLastPrice, events[i])
       /\ eventLastPrice[events[i]] = currentPrice

\* C20: the price history is a bounded queue: a tick appends its entry and,
\* when the capacity is exceeded, drops the oldest one, so the history is the
\* latest min(n, maxHistorySize) ticks in arrival order; no other handler
\* changes it; its length never exceeds maxHistorySize and its last entry
\* carries currentPrice.
C20_HistoryBoundedFifo ==
  /\ [][IF lastOp' = "tick"
          THEN LET n == Len(priceHistory)
                   n2 == Len(priceHistory')
               IN /\ n2 = Min(n + 1, maxHistorySize)
                  /\ priceHistory'[n2].value = currentPrice'
                  /\ \A k \in 1..(n2 - 1) :
                       priceHistory'[k] = priceHistory[n - (n2 - 1) + k]
          ELSE priceHistory' = priceHistory]_vars
  /\ [](Len(priceHistory) <= maxHistorySize)
  /\ [](IF priceHistory = <<>>
          THEN currentPrice = Null
          ELSE priceHistory[Len(priceHistory)].value = currentPrice)

\* the history is full and a value captured from an earlier tick is no longer
\* in it: more ticks than the capacity arrived and the oldest was dropped
C20_Witness ==
  /\ lastOp = "tick"
  /\ Len(priceHistory) = maxHistorySize
  /\ priceHistory[1] # priceHistory[2]
  /\ \E slug \in DOMAIN eventPriceToBeat :
       \A k \in 1..Len(priceHistory) : priceHistory[k].value # eventPriceToBeat[slug]

\* C21: a countdown tick for the Active event shows max(0, floor((endTime -
\* now) / 1000)) seconds: the value is not negative, not more than the
\* event's duration in seconds, not more than at any earlier instant of the
\* event (and the clock never goes back), and it is 0 exactly when less than
\* one second is left.
Remaining(slug, t) == Max(0, (EndTime(slug) - t) \div SecondMs)

\* the seconds a countdown text stands for
SecondsOf(text) == text[1] * 3600 + text[2] * 60 + text[3]

C21_RemainingTime ==
  [][/\ now' >= now
     /\ (/\ lastOp' = "countdown"
         /\ FindActive(events, now) # 0
         /\ panel.kind = "active")
        => LET slug == events[FindActive(events, now)]
               shown == SecondsOf(countdownText')
           IN /\ countdownText' # NoCountdown
              /\ shown = Remaining(slug, now)
              /\ shown >= 0
              /\ shown <= (EndTime(slug) - StartTime(slug)) \div SecondMs
              /\ \A t \in StartTime(slug)..now : shown <= Remaining(slug, t)
              /\ shown = 0 <=> EndTime(slug) - now < SecondMs]_vars

\* the timer fired with less than one second left and the countdown reads 0
C21_Witness ==
  /\ lastOp = "countdown"
  /\ FindActive(events, now) # 0
  /\ EndTime(events[FindActive(events, now)]) - now < SecondMs
  /\ countdownText = <<0, 0, 0>>

\* C22: no event that is still Upcoming has a priceToBeat entry, and an entry
\* is written only for an event that is Active at an instant at which the
\* writing handler reads the clock, also when the clock moves on between the
\* getEvents() calls of the handler.
C22_NoPriceToBeatForUpcoming ==
  /\ [](\A slug \in DOMAIN eventPriceToBeat : StartTime(slug) <= now)
  /\ [][\A slug \in Added(eventPriceToBeat, eventPriceToBeat') :
          Status(slug, now) = "active" \/ Status(slug, now') = "active"]_vars

\* the clock crossed the start of an event while a handler ran, and the
\* handler wrote the price to beat of the event that ended and of the one
\* that started
C22_Witness ==
  /\ lastOp \in {"tick", "loaded"}
  /\ now = StartTime(SlotOf(now))
  /\ SlotOf(now) >= 1
  /\ Has(eventPriceToBeat, SlotOf(now))
  /\ Has(eventPriceToBeat, SlotOf(now) - 1)
  /\ panel.slug = SlotOf(now)
  /\ panel.current

\* C23: the proxy handler answers a request once: with 400 and no upstream
\* fetch exactly when the API path is empty (nothing after the prefix in the
\* URL and no usable path parameter), otherwise after one fetch with the
\* upstream status when the upstream answer is not OK, with 500 when the fetch
\* or the parsing of the body throws, and with 200 and the upstream JSON only
\* when the upstream answer is OK and parses.
C23_ProxyOneResponse ==
  /\ Len(proxy.responses) <= 1
  /\ proxy.stage = "done" <=> Len(proxy.responses) = 1
  /\ proxy.stage = "fetching" => Len(proxy.fetched) = 1
  /\ proxy.stage = "done" =>
       LET res == proxy.responses[1]
           out == proxy.outcome
           noPath == /\ PathPart(proxy.req.url) \in
                          {<<>>, <<ProxyPrefix>>, <<ProxyPrefix, "/">>, <<"/", "events">>}
                     /\ ~Truthy(proxy.req.query.path)
       IN /\ noPath <=> res.body = "noPath"
          /\ res.body = "noPath" => res.status = BadRequest /\ proxy.fetched = <<>>
          /\ res.body # "noPath" => Len(proxy.fetched) = 1 /\ out # NoOutcome
          /\ out.kind = "throws" => res.status = ProxyFailure /\ res.body = "proxyError"
          /\ (out.kind = "answer" /\ ~Ok(out))
               => res.status = out.status /\ res.body = "apiError"
          /\ (out.kind = "answer" /\ Ok(out) /\ out.body # "json")
               => res.status = ProxyFailure /\ res.body = "proxyError"
          /\ res.status = Success <=> (out.kind = "answer" /\ Ok(out) /\ out.body = "json")
          /\ res.status = Success => res.body = "data"

\* a request for the bare prefix with an empty path parameter was answered
\* with 400 and nothing was fetched
C23_Witness ==
  /\ proxy.stage = "done"
  /\ proxy.req.url = <<ProxyPrefix, "/">>
  /\ proxy.req.query.path.kind = "string"
  /\ proxy.responses = <<[status |-> BadRequest, body |-> "noPath", cors |-> FALSE]>>
  /\ proxy.fetched = <<>>

====
